---------------------------- MODULE Spec2Model ----------------------------
(***************************************************************************)
(* Model of script.js: the curve generator (update), the bounding extent,  *)
(* the redraw (draw), the timer callback (drawHandler) and the handlers    *)
(* the control surface is wired to.                                        *)
(*                                                                         *)
(* Numbers.  A JavaScript number is modelled as a record                   *)
(* [nan |-> BOOLEAN, v |-> Int]: either NaN or an integer.  World          *)
(* coordinates are fixed-point integers in units of 1/Scale; Math.cos and  *)
(* Math.sin are a table of the exact values rounded to 1/Scale, defined on *)
(* headings that are multiples of 10 degrees (every heading the inputs of  *)
(* this model can produce).                                                *)
(***************************************************************************)
EXTENDS Integers, Sequences, FiniteSets, TLC

VARIABLES
    points,            \* line 36: the Point Sequence
    running,           \* line 38
    pointX, pointY,    \* lines 40-41: walker position
    direction,         \* line 42: heading, degrees
    angleAddend,       \* line 43: heading increment, degrees
    minX, maxX,        \* lines 46-47
    minY, maxY,        \* lines 48-49
    drawsPerFrame,     \* line 26
    frameRate,         \* line 27
    stepSize,          \* line 29
    angleStepSize,     \* line 30
    stepAmount,        \* line 166
    resetAfterChange,  \* line 168 (its truthiness)
    timerArmed,        \* a setTimeout(drawHandler) is pending
    busy,              \* the handler whose loop has not returned, or "none"
    lastOp,            \* the handler that ran last: "load", "drawHandler",
                       \* "Step", "Reset", or "other" for the remaining ones
    stepsTaken,        \* update() calls since the sequence was last emptied
    updateCalls,       \* update() calls made by the handler that ran last
    drawCalls,         \* draw() calls made by the handler that ran last
    threw              \* the handler that ran last ended by an exception

vars == <<points, running, pointX, pointY, direction, angleAddend,
          minX, maxX, minY, maxY, drawsPerFrame, frameRate, stepSize,
          angleStepSize, stepAmount, resetAfterChange, timerArmed, busy,
          lastOp, stepsTaken, updateCalls, drawCalls, threw>>

curveVars == <<points, pointX, pointY, direction, angleAddend,
               minX, maxX, minY, maxY>>

paramVars == <<drawsPerFrame, frameRate, stepSize, angleStepSize, stepAmount>>

-----------------------------------------------------------------------------
(* Bounds of the model *)

\* longest Point Sequence explored
MaxPoints == 3

-----------------------------------------------------------------------------
(* JavaScript numbers *)

Num(n) == [nan |-> FALSE, v |-> n]

NaN == [nan |-> TRUE, v |-> 0]

IsNaN(a) == a.nan

\* a + b
Add(a, b) == IF a.nan \/ b.nan THEN NaN ELSE Num(a.v + b.v)

\* a - b
Sub(a, b) == IF a.nan \/ b.nan THEN NaN ELSE Num(a.v - b.v)

\* a * b
Mul(a, b) == IF a.nan \/ b.nan THEN NaN ELSE Num(a.v * b.v)

\* Math.min(a, b)
MathMin(a, b) ==
    IF a.nan \/ b.nan THEN NaN ELSE IF a.v <= b.v THEN a ELSE b

\* Math.max(a, b)
MathMax(a, b) ==
    IF a.nan \/ b.nan THEN NaN ELSE IF a.v >= b.v THEN a ELSE b

\* a < b of JavaScript: false when either side is NaN
Less(a, b) == ~a.nan /\ ~b.nan /\ a.v < b.v

\* a <= b of JavaScript: false when either side is NaN
LessEq(a, b) == ~a.nan /\ ~b.nan /\ a.v <= b.v

\* a != b of JavaScript: NaN is unequal to everything, itself included
JsNotEqual(a, b) == a.nan \/ b.nan \/ a.v # b.v

\* ToBoolean of a number: 0 and NaN are falsy
Truthy(a) == ~a.nan /\ a.v # 0

\* cos(10 * i degrees), i = 0..9, in thousandths (rounded to nearest)
CosQuadrant == <<1000, 985, 940, 866, 766, 643, 500, 342, 174, 0>>

\* fixed-point denominator of world coordinates: the representation of 1.0
Scale == CosQuadrant[1]

\* Scale * cos(deg degrees) for deg a multiple of 10
CosDeg(deg) ==
    LET d == deg % 360
    IN  CASE d <= 90              -> CosQuadrant[(d \div 10) + 1]
          [] d > 90  /\ d <= 180  -> 0 - CosQuadrant[((180 - d) \div 10) + 1]
          [] d > 180 /\ d <= 270  -> 0 - CosQuadrant[((d - 180) \div 10) + 1]
          [] d > 270              -> CosQuadrant[((360 - d) \div 10) + 1]

\* Math.cos(a * Math.PI/180), scaled
MathCos(a) == IF a.nan THEN NaN ELSE Num(CosDeg(a.v))

\* Math.sin(a * Math.PI/180), scaled: sin(x) = cos(x - 90)
MathSin(a) == IF a.nan THEN NaN ELSE Num(CosDeg(a.v - 90))

-----------------------------------------------------------------------------
(* The text of a number field and its parsing *)

DigitChars == <<"0", "1", "2", "3", "4", "5", "6", "7", "8", "9">>

IsDigit(c) == \E i \in 1..10 : DigitChars[i] = c

DigitValue(c) == (CHOOSE i \in 1..10 : DigitChars[i] = c) - 1

\* the longest prefix of s made of digits
RECURSIVE DigitPrefix(_)
DigitPrefix(s) ==
    IF s = <<>> \/ ~IsDigit(Head(s)) THEN <<>>
    ELSE <<Head(s)>> \o DigitPrefix(Tail(s))

\* the value of a sequence of digits, acc being the value read so far
RECURSIVE DigitsValue(_, _)
DigitsValue(s, acc) ==
    IF s = <<>> THEN acc
    ELSE DigitsValue(Tail(s), 10 * acc + DigitValue(Head(s)))

\* parseInt(text): an optional sign, then the digits up to the first other
\* character; NaN when there is no digit
parseInt(text) ==
    LET neg  == text # <<>> /\ Head(text) = "-"
        rest == IF text # <<>> /\ Head(text) \in {"-", "+"}
                THEN Tail(text) ELSE text
        ds   == DigitPrefix(rest)
    IN  IF ds = <<>> THEN NaN
        ELSE Num((IF neg THEN -1 ELSE 1) * DigitsValue(ds, 0))

\* parseFloat(text), on texts without a fraction or an exponent
parseFloat(text) == parseInt(text)

\* texts typed into the Steps field
StepsTexts == { <<>>, <<"0">>, <<"2">>, <<"-", "1">> }

\* texts typed into the Framerate field
FramerateTexts == { <<>>, <<"6", "0">> }

\* texts typed into the draw()'s per frame field
DrawsPerFrameTexts == { <<>>, <<"0">>, <<"2">>, <<"-", "1">> }

\* texts typed into the Step size field
StepSizeTexts == { <<>>, <<"2", "0">> }

\* texts typed into the Direction step size field
AngleStepSizeTexts == { <<>>, <<"9", "0">> }

-----------------------------------------------------------------------------
(* The curve: walker state, Point Sequence and bounding extent *)

screenWidth == 600

screenHeight == 600

Curve == [points |-> points, pointX |-> pointX, pointY |-> pointY,
          direction |-> direction, angleAddend |-> angleAddend,
          minX |-> minX, maxX |-> maxX, minY |-> minY, maxY |-> maxY]

\* lines 36-49: the curve when the script has loaded
InitialCurve ==
    [points |-> <<>>, pointX |-> Num(0), pointY |-> Num(0),
     direction |-> Num(0), angleAddend |-> Num(0),
     minX |-> Num(0 - (screenWidth \div 2) * Scale),
     maxX |-> Num((screenWidth \div 2) * Scale),
     minY |-> Num(0 - (screenHeight \div 2) * Scale),
     maxY |-> Num((screenHeight \div 2) * Scale)]

\* update() storing the new point over the last one instead of pushing it
updateOverwriting(c, size, delta) ==
    LET x == Add(c.pointX, Mul(MathCos(c.direction), size))
        y == Add(c.pointY, Mul(MathSin(c.direction), size))
    IN  [points      |-> IF c.points = <<>>
                         THEN <<[x |-> x, y |-> y]>>
                         ELSE [c.points EXCEPT ![Len(c.points)] =
                                                   [x |-> x, y |-> y]],
         pointX      |-> x,
         pointY      |-> y,
         direction   |-> Add(c.direction, c.angleAddend),
         angleAddend |-> Add(c.angleAddend, delta),
         minX        |-> MathMin(c.minX, x),
         maxX        |-> MathMax(c.maxX, x),
         minY        |-> MathMin(c.minY, y),
         maxY        |-> MathMax(c.maxY, y)]

\* update() advancing the heading increment before the heading
updateAddendFirst(c, size, delta) ==
    LET x == Add(c.pointX, Mul(MathCos(c.direction), size))
        y == Add(c.pointY, Mul(MathSin(c.direction), size))
        a == Add(c.angleAddend, delta)
    IN  [points      |-> Append(c.points, [x |-> x, y |-> y]),
         pointX      |-> x,
         pointY      |-> y,
         direction   |-> Add(c.direction, a),
         angleAddend |-> a,
         minX        |-> MathMin(c.minX, x),
         maxX        |-> MathMax(c.maxX, x),
         minY        |-> MathMin(c.minY, y),
         maxY        |-> MathMax(c.maxY, y)]

\* update() with Math.cos and Math.sin exchanged
updateSwappedTrig(c, size, delta) ==
    LET x == Add(c.pointX, Mul(MathSin(c.direction), size))
        y == Add(c.pointY, Mul(MathCos(c.direction), size))
    IN  [points      |-> Append(c.points, [x |-> x, y |-> y]),
         pointX      |-> x,
         pointY      |-> y,
         direction   |-> Add(c.direction, c.angleAddend),
         angleAddend |-> Add(c.angleAddend, delta),
         minX        |-> MathMin(c.minX, x),
         maxX        |-> MathMax(c.maxX, x),
         minY        |-> MathMin(c.minY, y),
         maxY        |-> MathMax(c.maxY, y)]

\* update() folding the position before the move into the extent
updateStaleExtent(c, size, delta) ==
    LET x == Add(c.pointX, Mul(MathCos(c.direction), size))
        y == Add(c.pointY, Mul(MathSin(c.direction), size))
    IN  [points      |-> Append(c.points, [x |-> x, y |-> y]),
         pointX      |-> x,
         pointY      |-> y,
         direction   |-> Add(c.direction, c.angleAddend),
         angleAddend |-> Add(c.angleAddend, delta),
         minX        |-> MathMin(c.minX, c.pointX),
         maxX        |-> MathMax(c.maxX, c.pointX),
         minY        |-> MathMin(c.minY, c.pointY),
         maxY        |-> MathMax(c.maxY, c.pointY)]

\* update() pushing the position before moving it
updatePushFirst(c, size, delta) ==
    LET x == Add(c.pointX, Mul(MathCos(c.direction), size))
        y == Add(c.pointY, Mul(MathSin(c.direction), size))
    IN  [points      |-> Append(c.points, [x |-> c.pointX, y |-> c.pointY]),
         pointX      |-> x,
         pointY      |-> y,
         direction   |-> Add(c.direction, c.angleAddend),
         angleAddend |-> Add(c.angleAddend, delta),
         minX        |-> MathMin(c.minX, x),
         maxX        |-> MathMax(c.maxX, x),
         minY        |-> MathMin(c.minY, y),
         maxY        |-> MathMax(c.maxY, y)]

\* update() on curve c with step length size and heading-increment delta
update(c, size, delta) ==
    LET x == Add(c.pointX, Mul(MathCos(c.direction), size))
        y == Add(c.pointY, Mul(MathSin(c.direction), size))
    IN  [points      |-> Append(c.points, [x |-> x, y |-> y]),
         pointX      |-> x,
         pointY      |-> y,
         direction   |-> Add(c.direction, c.angleAddend),
         angleAddend |-> Add(c.angleAddend, delta),
         minX        |-> MathMin(c.minX, x),
         maxX        |-> MathMax(c.maxX, x),
         minY        |-> MathMin(c.minY, y),
         maxY        |-> MathMax(c.maxY, y)]

\* the count of `for (let i=n; --i;)`: one iteration short
LoopCountPreDecrement(n) == IF Truthy(n) THEN n.v - 1 ELSE 0

\* the number of times the body of `for (let i=n; i--;)` runs when it
\* returns: n for a positive n, none for 0 and NaN
LoopCount(n) == IF Truthy(n) THEN n.v ELSE 0

\* `for (let i=n; i--;)` never sees a falsy i: n is negative
LoopDiverges(n) == ~n.nan /\ n.v < 0

\* update() called k times
RECURSIVE updateTimes(_, _, _, _)
updateTimes(c, k, size, delta) ==
    IF k = 0 THEN c
    ELSE updateTimes(update(c, size, delta), k - 1, size, delta)

\* draw() raises a TypeError at points[0].x when the sequence is empty
drawThrows(c) == c.points = <<>>

SetCurveInit ==
    /\ points = InitialCurve.points
    /\ pointX = InitialCurve.pointX
    /\ pointY = InitialCurve.pointY
    /\ direction = InitialCurve.direction
    /\ angleAddend = InitialCurve.angleAddend
    /\ minX = InitialCurve.minX
    /\ maxX = InitialCurve.maxX
    /\ minY = InitialCurve.minY
    /\ maxY = InitialCurve.maxY

SetCurve(c) ==
    /\ points' = c.points
    /\ pointX' = c.pointX
    /\ pointY' = c.pointY
    /\ direction' = c.direction
    /\ angleAddend' = c.angleAddend
    /\ minX' = c.minX
    /\ maxX' = c.maxX
    /\ minY' = c.minY
    /\ maxY' = c.maxY

\* reset() without lines 93-96: the extent is kept
ClearedCurveKeepingExtent ==
    [points |-> <<>>, pointX |-> Num(0), pointY |-> Num(0),
     direction |-> Num(0), angleAddend |-> Num(0),
     minX |-> minX, maxX |-> maxX, minY |-> minY, maxY |-> maxY]

\* lines 88-98 of reset(): walker, extent and sequence cleared
ClearedCurve ==
    [points |-> <<>>, pointX |-> Num(0), pointY |-> Num(0),
     direction |-> Num(0), angleAddend |-> Num(0),
     minX |-> Num(0), maxX |-> Num(0), minY |-> Num(0), maxY |-> Num(0)]

\* reset() without its update()
resetCurveNoUpdate(size, delta) == ClearedCurve

\* the curve reset() leaves: cleared, then one update()
resetCurve(size, delta) == update(ClearedCurve, size, delta)

-----------------------------------------------------------------------------
(* The viewport transform.  Extents and coordinates are in units of 1/Scale *)
(* and screen sizes are plain integers; quotients are rounded down to a     *)
(* multiple of 1/Scale, and a quotient that is not finite is NaN.           *)

\* a / n for a fixed-point a and a plain number n
DivBy(a, n) ==
    IF a.nan \/ n.nan \/ n.v = 0 THEN NaN ELSE Num(a.v \div n.v)

\* a / b for fixed-point a and b, as a fixed-point ratio
Ratio(a, b) ==
    IF a.nan \/ b.nan \/ b.v = 0 THEN NaN ELSE Num((a.v * Scale) \div b.v)

\* Math.abs(a)
MathAbs(a) == IF a.nan THEN NaN ELSE IF a.v < 0 THEN Num(0 - a.v) ELSE a

\* the 5px border of transformPoint, in world units
Margin == 10

\* getWindowData()
getWindowData ==
    LET width   == Sub(maxX, minX)
        height  == Sub(maxY, minY)
        maxSize == MathMax(width, height)
    IN  [centerX     |-> DivBy(Add(minX, maxX), Num(2)),
         centerY     |-> DivBy(Add(minY, maxY), Num(2)),
         width       |-> width,
         height      |-> height,
         maxSize     |-> maxSize,
         scaleFactor |-> DivBy(maxSize,
                               MathMax(Num(screenWidth), Num(screenHeight)))]

\* the denominator win.maxSize + 10 of transformPoint
Denominator(win) == Add(win.maxSize, Num(Margin * Scale))

\* transformPoint(x, y, win), in pixels (fixed-point)
transformPoint(x, y, win) ==
    [x |-> Mul(Ratio(Sub(x, win.centerX), Denominator(win)),
               MathMax(Num(screenWidth), Num(screenHeight))),
     y |-> Mul(Ratio(Sub(y, win.centerY), Denominator(win)),
               MathMax(Num(screenWidth), Num(screenHeight)))]

\* the points draw() passes to lineTo, in order
drawnPoints ==
    [i \in 1..Len(points) |->
        transformPoint(points[i].x, points[i].y, getWindowData)]

-----------------------------------------------------------------------------
(* State after the script has run: clear() at line 150, the first           *)
(* drawHandler() at line 162 (running is false: it only arms the timer)     *)

Init ==
    /\ SetCurveInit
    /\ running = FALSE
    /\ drawsPerFrame = Num(1)
    /\ frameRate = Num(60)
    /\ stepSize = Num(20)
    /\ angleStepSize = Num(10)
    /\ stepAmount = Num(1)
    /\ resetAfterChange = FALSE
    /\ timerArmed = TRUE
    /\ busy = "none"
    /\ lastOp = "load"
    /\ stepsTaken = 0
    /\ updateCalls = 0
    /\ drawCalls = 0
    /\ threw = FALSE

\* what a handler that calls neither update() nor draw() leaves
Quiet(op) ==
    /\ lastOp' = op
    /\ updateCalls' = 0
    /\ drawCalls' = 0
    /\ threw' = FALSE
    /\ UNCHANGED stepsTaken

\* `for (let i=n; i--;) update(); draw();` run by handler op
StepsThenDraw(op, n) ==
    /\ lastOp' = op
    /\ IF LoopDiverges(n)
       THEN /\ busy' = op
            /\ updateCalls' = 0
            /\ drawCalls' = 0
            /\ threw' = FALSE
            /\ UNCHANGED <<curveVars, stepsTaken>>
       ELSE LET k == LoopCount(n)
                c == updateTimes(Curve, k, stepSize, angleStepSize)
            IN  /\ Len(points) + k <= MaxPoints
                /\ SetCurve(c)
                /\ stepsTaken' = stepsTaken + k
                /\ updateCalls' = k
                /\ drawCalls' = 1
                /\ threw' = drawThrows(c)
                /\ busy' = "none"

\* the timer callback without its `if (running)`
drawHandlerIgnoringRunning ==
    /\ timerArmed
    /\ busy = "none"
    /\ StepsThenDraw("drawHandler", drawsPerFrame)
    /\ timerArmed' = (busy' = "none" /\ ~threw')
    /\ UNCHANGED <<running, paramVars, resetAfterChange>>

\* the timer callback
drawHandler ==
    /\ timerArmed
    /\ busy = "none"
    /\ IF running
       THEN /\ StepsThenDraw("drawHandler", drawsPerFrame)
            /\ timerArmed' = (busy' = "none" /\ ~threw')
       ELSE /\ Quiet("drawHandler")
            /\ timerArmed' = TRUE
            /\ UNCHANGED <<curveVars, busy>>
    /\ UNCHANGED <<running, paramVars, resetAfterChange>>

\* a loop that does not return keeps calling update()
Spin ==
    /\ busy # "none"
    /\ Len(points) < MaxPoints
    /\ SetCurve(update(Curve, stepSize, angleStepSize))
    /\ stepsTaken' = stepsTaken + 1
    /\ updateCalls' = updateCalls + 1
    /\ UNCHANGED <<running, paramVars, resetAfterChange, timerArmed,
                   busy, lastOp, drawCalls, threw>>

\* the Start button
Start ==
    /\ busy = "none"
    /\ running' = TRUE
    /\ Quiet("other")
    /\ UNCHANGED <<curveVars, paramVars, resetAfterChange, timerArmed,
                   busy>>

\* the Stop button
Stop ==
    /\ busy = "none"
    /\ running' = FALSE
    /\ Quiet("other")
    /\ UNCHANGED <<curveVars, paramVars, resetAfterChange, timerArmed,
                   busy>>

\* the Step button looping over drawsPerFrame
StepByDrawsPerFrame ==
    /\ busy = "none"
    /\ StepsThenDraw("Step", drawsPerFrame)
    /\ UNCHANGED <<running, paramVars, resetAfterChange, timerArmed>>

\* the Step button
Step ==
    /\ busy = "none"
    /\ StepsThenDraw("Step", stepAmount)
    /\ UNCHANGED <<running, paramVars, resetAfterChange, timerArmed>>

\* clear(), the Clear button
clear ==
    /\ busy = "none"
    /\ Quiet("other")
    /\ UNCHANGED <<curveVars, running, paramVars, resetAfterChange,
                   timerArmed, busy>>

\* reset() that also stops the animation
resetStopping ==
    /\ busy = "none"
    /\ LET c == resetCurve(stepSize, angleStepSize)
       IN  /\ SetCurve(c)
           /\ threw' = drawThrows(c)
    /\ running' = FALSE
    /\ lastOp' = "Reset"
    /\ stepsTaken' = 1
    /\ updateCalls' = 1
    /\ drawCalls' = 1
    /\ UNCHANGED <<paramVars, resetAfterChange, timerArmed, busy>>

\* reset(), the Reset button
reset ==
    /\ busy = "none"
    /\ LET c == resetCurve(stepSize, angleStepSize)
       IN  /\ SetCurve(c)
           /\ threw' = drawThrows(c)
    /\ lastOp' = "Reset"
    /\ stepsTaken' = 1
    /\ updateCalls' = 1
    /\ drawCalls' = 1
    /\ UNCHANGED <<running, paramVars, resetAfterChange, timerArmed, busy>>

\* what a setter stores: `if (value != NaN) param = value`
Stored(value, old) == IF JsNotEqual(value, NaN) THEN value ELSE old

\* the Steps field
SetSteps ==
    /\ busy = "none"
    /\ \E text \in StepsTexts : stepAmount' = Stored(parseInt(text), stepAmount)
    /\ Quiet("other")
    /\ UNCHANGED <<curveVars, running, drawsPerFrame, frameRate, stepSize,
                   angleStepSize, resetAfterChange, timerArmed, busy>>

\* the Framerate field
SetFramerate ==
    /\ busy = "none"
    /\ \E text \in FramerateTexts :
           frameRate' = Stored(parseInt(text), frameRate)
    /\ Quiet("other")
    /\ UNCHANGED <<curveVars, running, drawsPerFrame, stepAmount, stepSize,
                   angleStepSize, resetAfterChange, timerArmed, busy>>

\* the draw()'s per frame field
SetDrawsPerFrame ==
    /\ busy = "none"
    /\ \E text \in DrawsPerFrameTexts :
           drawsPerFrame' = Stored(parseInt(text), drawsPerFrame)
    /\ Quiet("other")
    /\ UNCHANGED <<curveVars, running, frameRate, stepAmount, stepSize,
                   angleStepSize, resetAfterChange, timerArmed, busy>>

\* the Step size field
SetStepSize ==
    /\ busy = "none"
    /\ \E text \in StepSizeTexts :
           stepSize' = Stored(parseFloat(text), stepSize)
    /\ Quiet("other")
    /\ UNCHANGED <<curveVars, running, drawsPerFrame, frameRate, stepAmount,
                   angleStepSize, resetAfterChange, timerArmed, busy>>

\* the Direction step size field
SetAngleStepSize ==
    /\ busy = "none"
    /\ \E text \in AngleStepSizeTexts :
           angleStepSize' = Stored(parseFloat(text), angleStepSize)
    /\ Quiet("other")
    /\ UNCHANGED <<curveVars, running, drawsPerFrame, frameRate, stepAmount,
                   stepSize, resetAfterChange, timerArmed, busy>>

\* the Reset on change box
SetResetAfterChange ==
    /\ busy = "none"
    /\ \E value \in BOOLEAN : resetAfterChange' = value
    /\ Quiet("other")
    /\ UNCHANGED <<curveVars, running, paramVars, timerArmed, busy>>

Next ==
    \/ drawHandler
    \/ Spin
    \/ Start
    \/ Stop
    \/ Step
    \/ clear
    \/ reset
    \/ SetSteps
    \/ SetFramerate
    \/ SetDrawsPerFrame
    \/ SetStepSize
    \/ SetAngleStepSize
    \/ SetResetAfterChange

Spec == Init /\ [][Next]_vars

-----------------------------------------------------------------------------
(* The generator with fixed parameters: the step length and the heading-   *)
(* increment delta are chosen before the first step and never set again     *)

\* further texts the Step size field may hold before the first step
FixedStepSizeTexts == { <<"0">>, <<"-", "5">> }

StepSizeValues ==
    {Num(20)} \cup
    {parseFloat(text) : text \in StepSizeTexts \cup FixedStepSizeTexts}

AngleStepSizeValues ==
    {Num(10)} \cup {parseFloat(text) : text \in AngleStepSizeTexts}

InitFixed ==
    /\ SetCurveInit
    /\ running = FALSE
    /\ drawsPerFrame = Num(1)
    /\ frameRate = Num(60)
    /\ stepSize \in StepSizeValues
    /\ angleStepSize \in AngleStepSizeValues
    /\ stepAmount = Num(1)
    /\ resetAfterChange = FALSE
    /\ timerArmed = TRUE
    /\ busy = "none"
    /\ lastOp = "load"
    /\ stepsTaken = 0
    /\ updateCalls = 0
    /\ drawCalls = 0
    /\ threw = FALSE

NextFixed ==
    \/ drawHandler
    \/ Spin
    \/ Start
    \/ Stop
    \/ Step
    \/ clear
    \/ reset
    \/ SetSteps
    \/ SetFramerate
    \/ SetDrawsPerFrame
    \/ SetResetAfterChange

SpecFixed == InitFixed /\ [][NextFixed]_vars

-----------------------------------------------------------------------------
(* Properties *)

IsPositive(n) == ~n.nan /\ n.v > 0

C2_StoppedTickIsNoOp ==
    /\ ~running
    /\ [][/\ Start => running'
          /\ Stop => ~running'
          /\ (drawHandler /\ ~running) =>
                 /\ UNCHANGED curveVars
                 /\ updateCalls' = 0
                 /\ drawCalls' = 0]_vars

C2_Witness ==
    /\ lastOp = "drawHandler"
    /\ ~running
    /\ Len(points) = 2
    /\ drawCalls = 0

\* C3: the Step button with stepAmount a positive integer n, running or not,
\* appends exactly n points to the Point Sequence, calls draw() exactly once
\* and leaves running as it was.
C3_StepAppendsStepAmount ==
    [][(Step /\ IsPositive(stepAmount)) =>
          /\ Len(points') = Len(points) + stepAmount.v
          /\ SubSeq(points', 1, Len(points)) = points
          /\ updateCalls' = stepAmount.v
          /\ drawCalls' = 1
          /\ ~threw'
          /\ running' = running]_vars

C3_Witness ==
    /\ lastOp = "Step"
    /\ ~running
    /\ stepAmount = Num(2)
    /\ drawsPerFrame = Num(1)
    /\ updateCalls = 2
    /\ drawCalls = 1
    /\ Len(points) = 3

\* C4 as claimed: reset() leaves the controller stopped.
C4_ResetStops == [][reset => ~running']_vars

\* C4 as amended: reset() leaves the controller in the state it was in; a
\* running controller is still running afterwards.
C4_ResetKeepsRunning == [][reset => (running' = running)]_vars

C4_Witness ==
    /\ lastOp = "Reset"
    /\ running
    /\ Len(points) = 1

\* C5 as claimed: right after reset() the walker is at (0,0) with heading 0
\* and heading increment 0, and the Point Sequence is empty.
C5_ResetIsFresh ==
    lastOp = "Reset" =>
        /\ points = <<>>
        /\ pointX = Num(0)
        /\ pointY = Num(0)
        /\ direction = Num(0)
        /\ angleAddend = Num(0)

\* C5 as amended: right after reset() the Point Sequence holds exactly one
\* point, the walker's position, which is one step of the current step length
\* from the origin along heading 0; the heading is 0 and the heading increment
\* is the current delta.
C5_ResetIsOneStep ==
    lastOp = "Reset" =>
        /\ Len(points) = 1
        /\ points[1] = [x |-> pointX, y |-> pointY]
        /\ pointX = Mul(Num(Scale), stepSize)
        /\ pointY = Mul(Num(0), stepSize)
        /\ direction = Num(0)
        /\ angleAddend = angleStepSize

C5_Witness ==
    /\ lastOp = "Reset"
    /\ points = <<[x |-> Num(20 * Scale), y |-> Num(0)]>>
    /\ angleAddend = Num(90)
    /\ running

Setter ==
    \/ SetSteps
    \/ SetFramerate
    \/ SetDrawsPerFrame
    \/ SetStepSize
    \/ SetAngleStepSize

\* C6: a parameter setter that runs while resetAfterChange is true leaves the
\* curve as reset() does under the parameters then in force.
C6_SetterResets ==
    [][(Setter /\ resetAfterChange) =>
          /\ points' = resetCurve(stepSize', angleStepSize').points
          /\ pointX' = resetCurve(stepSize', angleStepSize').pointX
          /\ angleAddend' = resetCurve(stepSize', angleStepSize').angleAddend
          /\ drawCalls' = 1]_vars

\* C7: no parameter ever holds NaN.
C7_ParametersNumeric ==
    /\ ~IsNaN(stepAmount)
    /\ ~IsNaN(frameRate)
    /\ ~IsNaN(drawsPerFrame)
    /\ ~IsNaN(stepSize)
    /\ ~IsNaN(angleStepSize)

\* C8: no handler ends by an exception: every draw() a tick, the Step button
\* or reset() calls returns.
C8_NoHandlerThrows == ~threw

\* C9: every update() call appends exactly one point: the Point Sequence is
\* as long as the number of update() calls since it was last emptied.
C9_LengthIsStepCount == Len(points) = stepsTaken

C9_Witness ==
    /\ lastOp = "Step"
    /\ stepsTaken = 3
    /\ Len(points) = 3

\* C10: with the delta d fixed (a number), the heading used to compute point
\* k, which is `direction` when k points have been computed, is d*k*(k-1)/2.
C10_HeadingIsTriangular ==
    ~IsNaN(angleStepSize) =>
        direction =
            Num(angleStepSize.v * ((stepsTaken * (stepsTaken - 1)) \div 2))

C10_Witness ==
    /\ angleStepSize = Num(10)
    /\ Len(points) = 3
    /\ direction = Num(30)

\* the point p displaced by len world units along heading deg degrees
Displaced(p, len, deg) ==
    [x |-> Add(p.x, Mul(MathCos(Num(deg)), Num(len))),
     y |-> Add(p.y, Mul(MathSin(Num(deg)), Num(len)))]

Origin == [x |-> Num(0), y |-> Num(0)]

\* C11 as claimed: with step length 20 and delta 10 the first three points
\* are computed with the headings 0, 10 and 30 degrees.
C11_Headings_0_10_30 ==
    (stepSize = Num(20) /\ angleStepSize = Num(10) /\ Len(points) = 3) =>
        /\ points[1] = Displaced(Origin, 20, 0)
        /\ points[2] = Displaced(points[1], 20, 10)
        /\ points[3] = Displaced(points[2], 20, 30)

\* C11 as amended: with step length 20 and delta 10 the first three points
\* are computed with the headings 0, 0 and 10 degrees: P0 = (20,0),
\* P1 = (40,0), P2 = P1 displaced 20 units along heading 10 degrees.
C11_Headings_0_0_10 ==
    (stepSize = Num(20) /\ angleStepSize = Num(10) /\ Len(points) = 3) =>
        /\ points[1] = [x |-> Num(20 * Scale), y |-> Num(0)]
        /\ points[2] = [x |-> Num(40 * Scale), y |-> Num(0)]
        /\ points[3] = Displaced(points[2], 20, 10)
        /\ points[3] # points[2]

C11_Witness ==
    /\ stepSize = Num(20)
    /\ angleStepSize = Num(10)
    /\ lastOp = "Step"
    /\ stepsTaken = 3
    /\ points[3] = [x |-> Num(40 * Scale + 20 * CosDeg(10)),
                    y |-> Num(20 * CosDeg(80))]

\* Math.min of base and the numbers of seq
RECURSIVE MinOver(_, _)
MinOver(base, seq) ==
    IF seq = <<>> THEN base ELSE MinOver(MathMin(base, Head(seq)), Tail(seq))

\* Math.max of base and the numbers of seq
RECURSIVE MaxOver(_, _)
MaxOver(base, seq) ==
    IF seq = <<>> THEN base ELSE MaxOver(MathMax(base, Head(seq)), Tail(seq))

PointXs == [i \in 1..Len(points) |-> points[i].x]

PointYs == [i \in 1..Len(points) |-> points[i].y]

\* C12 as claimed: with a non-empty Point Sequence the extent is exactly the
\* componentwise minimum and maximum over the points.
C12_ExtentIsTight ==
    points # <<>> =>
        /\ minX = MinOver(points[1].x, PointXs)
        /\ maxX = MaxOver(points[1].x, PointXs)
        /\ minY = MinOver(points[1].y, PointYs)
        /\ maxY = MaxOver(points[1].y, PointYs)

\* C12 as amended: the extent is the componentwise Math.min / Math.max over
\* the points together with the box it was last initialised to: the screen
\* box at load, the origin after reset().
C12_ExtentIsUnionWithBase ==
    \E base \in {InitialCurve, ClearedCurve} :
        /\ minX = MinOver(base.minX, PointXs)
        /\ maxX = MaxOver(base.maxX, PointXs)
        /\ minY = MinOver(base.minY, PointYs)
        /\ maxY = MaxOver(base.maxY, PointYs)

C12_Witness ==
    /\ Len(points) = 3
    /\ minX = Num(0)
    /\ minY = Num(0)
    /\ maxX = points[3].x
    /\ maxY = points[3].y
    /\ maxY # Num(0)
    /\ points[1].x # Num(0)

\* C13: every handler other than reset() leaves each bound of the extent
\* where it was or moves it outwards: minX and minY never grow, maxX and maxY
\* never shrink.
C13_ExtentOnlyWidens ==
    [][reset \/
       /\ (minX' = minX \/ Less(minX', minX))
       /\ (minY' = minY \/ Less(minY', minY))
       /\ (maxX' = maxX \/ Less(maxX, maxX'))
       /\ (maxY' = maxY \/ Less(maxY, maxY'))]_vars

\* C14 as claimed: right after reset() the extent is the degenerate box at
\* the origin, whatever the step length.
C14_ResetExtentIsOrigin ==
    lastOp = "Reset" =>
        /\ minX = Num(0)
        /\ maxX = Num(0)
        /\ minY = Num(0)
        /\ maxY = Num(0)

\* C14 as amended: right after reset() the extent is the box spanned by the
\* origin and the first point (stepSize, 0 * stepSize).
C14_ResetExtentIsFirstStep ==
    lastOp = "Reset" =>
        /\ minX = MathMin(Num(0), Mul(Num(Scale), stepSize))
        /\ maxX = MathMax(Num(0), Mul(Num(Scale), stepSize))
        /\ minY = MathMin(Num(0), Mul(Num(0), stepSize))
        /\ maxY = MathMax(Num(0), Mul(Num(0), stepSize))

C14_Witness ==
    /\ lastOp = "Reset"
    /\ stepSize = Num(-5)
    /\ minX = Num(-5 * Scale)
    /\ maxX = Num(0)
    /\ maxY = Num(0)

\* C15: in every state the denominator maxSize + 10 of the viewport
\* transform is strictly positive.
C15_DenominatorPositive == Less(Num(0), Denominator(getWindowData))

\* C16: after every redraw each point of the Point Sequence is drawn strictly
\* inside the surface: |x'| < screenWidth/2 and |y'| < screenHeight/2.
C16_DrawnInsideSurface ==
    (drawCalls = 1 /\ ~threw) =>
        \A i \in 1..Len(points) :
            /\ Less(MathAbs(drawnPoints[i].x),
                    Num((screenWidth \div 2) * Scale))
            /\ Less(MathAbs(drawnPoints[i].y),
                    Num((screenHeight \div 2) * Scale))

\* C17: every run of the tick handler ends with the next tick scheduled.
C17_TickRearmsTimer == [][drawHandler => timerArmed']_vars

\* C18: with a non-empty Point Sequence the walker position is the point
\* appended last.
C18_WalkerIsLastPoint ==
    points # <<>> => points[Len(points)] = [x |-> pointX, y |-> pointY]

C18_Witness ==
    /\ lastOp = "drawHandler"
    /\ Len(points) = 3
    /\ points[3] = [x |-> pointX, y |-> pointY]
    /\ points[3] # points[2]
    /\ ~IsNaN(pointY)
    /\ pointY # Num(0)

\* C19: in every state the extent is a well-formed box that contains every
\* point of the Point Sequence.
C19_ExtentContainsPoints ==
    /\ LessEq(minX, maxX)
    /\ LessEq(minY, maxY)
    /\ \A i \in 1..Len(points) :
           /\ LessEq(minX, points[i].x)
           /\ LessEq(points[i].x, maxX)
           /\ LessEq(minY, points[i].y)
           /\ LessEq(points[i].y, maxY)

\* C20: no handler is ever left in a step loop that does not return.
C20_LoopsTerminate == busy = "none"

=============================================================================
